---- MODULE Spec2Model ----
(***************************************************************************)
(* A model of the hubot-slack adapter (src/src/Bot.mjs): the SlackClient   *)
(* (conversation cache, user directory, outbound send / setTopic, bulk     *)
(* user load) and the SlackBot adapter (run, send, reply, setTopic,        *)
(* authenticated, eventHandler).  The REST client (WebClient), the socket  *)
(* transport and the robot (brain, receive, logger) are collaborators:     *)
(* they are modelled by what the adapter asks of them.                     *)
(***************************************************************************)
EXTENDS Integers, Sequences, FiniteSets, TLC

(***************************************************************************)
(* Bounds of the model.                                                    *)
(***************************************************************************)
MaxTime == 1
MaxTTL == 1
MaxAuth == 1
MaxRequests == 5
MaxSends == 2
MaxTopics == 2
MaxFetchCalls == 3
MaxPages == 2
MaxUpdates == 2
MaxEvents == 1
MaxStream == 2
MaxErrors == 1

(***************************************************************************)
(* Program constants.                                                      *)
(***************************************************************************)
\* new WebClient(token, { maxRequestConcurrency: 1, ... })
\* A faulty variant: a WebClient left to send two requests at a time.
MaxRequestConcurrencyTwo == 1 + 1
MaxRequestConcurrency == 1

(***************************************************************************)
(* Values.                                                                 *)
(***************************************************************************)
Undefined == "<undefined>"
Conversations == {"C1", "D1"}

\* The `channel` member of a conversations.info response.  NullChannel is a
\* response without one (r.channel == null).
NullChannel == [name |-> Undefined, is_im |-> FALSE, is_mpim |-> FALSE]
Metadata == {[name |-> "general", is_im |-> FALSE, is_mpim |-> FALSE],
             [name |-> "dm", is_im |-> TRUE, is_mpim |-> FALSE],
             [name |-> "group", is_im |-> FALSE, is_mpim |-> TRUE]}

\* What conversations.info answers to fetchConversation.
CacheAnswers == {[name |-> "general", is_im |-> FALSE, is_mpim |-> FALSE],
                 [name |-> "dm", is_im |-> TRUE, is_mpim |-> FALSE],
                 NullChannel}

\* this.channelData[conversationId] when the key is absent.
NoEntry == [present |-> FALSE, channel |-> NullChannel, updated |-> 0]

EmptyObject == [k \in {} |-> Undefined]
NoOpts == EmptyObject

\* obj[key], undefined when the key is absent.
Get(obj, key) == IF key \in DOMAIN obj THEN obj[key] ELSE Undefined

\* obj[key] = value
Put(obj, key, value) ==
    [k \in DOMAIN obj \cup {key} |-> IF k = key THEN value ELSE obj[k]]

\* delete obj[key]
Delete(obj, key) == [k \in DOMAIN obj \ {key} |-> obj[k]]

\* !value, for the strings of the model.
Falsy(value) == value \in {Undefined, ""}

\* A JavaScript number: NaN, or an integer.
NaN == [nan |-> TRUE, n |-> 0]
Num(n) == [nan |-> FALSE, n |-> n]
\* a - b, a < b and a === b on numbers: NaN makes the difference NaN and
\* every comparison false, a === NaN included.
Minus(a, b) == IF a.nan \/ b.nan THEN NaN ELSE Num(a.n - b.n)
Less(a, b) == ~a.nan /\ ~b.nan /\ a.n < b.n
LessOrEqual(a, b) == ~a.nan /\ ~b.nan /\ a.n <= b.n
StrictEquals(a, b) == ~a.nan /\ ~b.nan /\ a.n = b.n

\* process.env.HUBOT_SLACK_CONVERSATION_CACHE_TTL_MS: unset, or a string,
\* which is modelled by the sequence of the code points of its characters.
DigitChars == 48..57
IsDigit(c) == c \in DigitChars
DigitValue(c) == c - 48
\* The white space that parseInt skips (StrWhiteSpaceChar): tab, line feed,
\* vertical tab, form feed, carriage return, space, no-break space, ogham
\* space mark, U+2000 to U+200A, the line and paragraph separators, narrow
\* no-break space, medium mathematical space, ideographic space and the byte
\* order mark.
WhiteSpaceChars ==
    {9, 10, 11, 12, 13, 32, 160, 5760} \cup (8192..8202)
        \cup {8232, 8233, 8239, 8287, 12288, 65279}
IsWhiteSpace(c) == c \in WhiteSpaceChars
Unset == [set |-> FALSE, value |-> <<>>]
EnvString(chars) == [set |-> TRUE, value |-> chars]
\* Unset, "", "-1", "abc", "1x", " 10", "\t\n1", U+2003 "1", U+200B "1",
\* U+00E9 "1", and "0", "1", ...
EnvValues ==
    {Unset, EnvString(<<>>), EnvString(<<45, 49>>), EnvString(<<97, 98, 99>>),
     EnvString(<<49, 120>>), EnvString(<<32, 49, 48>>), EnvString(<<9, 10, 49>>),
     EnvString(<<8195, 49>>), EnvString(<<8203, 49>>), EnvString(<<233, 49>>)}
        \cup {EnvString(<<48 + n>>) : n \in 0..MaxTTL}

\* The digits that chars starts with, as a number; acc is the value so far.
RECURSIVE LeadingDigits(_, _)
LeadingDigits(chars, acc) ==
    IF chars = <<>> \/ ~IsDigit(Head(chars)) THEN acc
    ELSE LeadingDigits(Tail(chars), 10 * acc + DigitValue(Head(chars)))

\* parseInt(string, 10): leading white space is skipped, a sign is read, then
\* the digits up to the first character that is not one; NaN without a digit.
RECURSIVE ParseInt(_)
ParseInt(chars) ==
    IF chars = <<>> THEN NaN
    ELSE IF IsWhiteSpace(Head(chars)) THEN ParseInt(Tail(chars))
    ELSE LET signed == Head(chars) \in {45, 43}    \* "-", "+"
             digits == IF signed THEN Tail(chars) ELSE chars
         IN IF digits = <<>> \/ ~IsDigit(Head(digits)) THEN NaN
            ELSE IF Head(chars) = 45 THEN Num(0 - LeadingDigits(digits, 0))
                 ELSE Num(LeadingDigits(digits, 0))

\* static CONVERSATION_CACHE_TTL_MS
ConversationCacheTTL(env) ==
    IF env.set /\ env.value # <<>> THEN ParseInt(env.value) ELSE Num(5 * 60 * 1000)

\* The check made when the module is loaded: it throws when this holds.
TTLCheckThrows(t) == StrictEquals(t, NaN)

\* The user objects the platform sends (users.info, users.list, user_change).
UserIds == {"U1", "UBOT"}
BotId == "UBOT"
UserPayloads ==
    {[id |-> "U1", name |-> "alice", real_name |-> "Alice A", tz |-> "utc",
      profile |-> [email |-> "a@x"]],
     [id |-> "U1", name |-> "alice2", profile |-> [title |-> "dev"]],
     [id |-> "U1", real_name |-> "Al", tz |-> "pst", profile |-> [email |-> "b@x"]],
     [id |-> "UBOT", name |-> "hubot", real_name |-> "Hubot"]}
\* What users.info answers.
InfoPayloads ==
    {[id |-> "U1", name |-> "alice", real_name |-> "Alice A", tz |-> "utc",
      profile |-> [email |-> "a@x"]],
     [id |-> "UBOT", name |-> "hubot", real_name |-> "Hubot"]}
UserChange(user) == [type |-> "user_change", user |-> user]

VARIABLES
    now,            \* Date.now()
    ttl,            \* SlackClient.CONVERSATION_CACHE_TTL_MS
    logged,         \* history: number of robot.logger.error calls
    channelData,    \* SlackClient.channelData
    fcCalls,        \* history: the fetchConversation calls and their progress
    webQueue,       \* requests handed to the WebClient, not yet on the wire
    webInFlight,    \* requests on the wire
    webLog,         \* history: every request handed to the WebClient
    users,          \* robot.brain.data.users
    lastUpdate,     \* history: the last updateUserInBrain call
    loads,          \* the loadUsers calls: combinedResults and their progress
    options,        \* the adapter's options
    runState,       \* where SlackBot.run is
    eventHandler,   \* SlackClient.eventHandler is set
    brainListener,  \* run's listener of the brain's "loaded" is registered
    brainIsLoaded,  \* SlackBot.brainIsLoaded
    self,           \* SlackBot.self
    events,         \* the inbound events delivered and their handlers' progress
    received,       \* history: the messages handed to robot.receive
    sends,          \* the send and reply calls and their progress
    topics          \* the setTopic calls and their progress

webVars == <<webQueue, webInFlight, webLog>>
cacheVars == <<channelData, fcCalls>>
userVars == <<users, lastUpdate>>
lifeVars == <<options, runState, eventHandler, brainListener, brainIsLoaded, self>>
eventVars == <<events, received>>
sendVars == <<sends, topics>>
vars == <<now, ttl, logged, channelData, fcCalls, webQueue, webInFlight, webLog,
          users, lastUpdate, loads, options, runState, eventHandler, brainListener,
          brainIsLoaded, self, events, received, sends, topics>>

(***************************************************************************)
(* The REST collaborator: one WebClient shared by the adapter and its      *)
(* client, with a queue of maxRequestConcurrency.                          *)
(***************************************************************************)
\* The request is the call of `method` made by call idx (for its message sub)
\* of the calls of its kind; arg is the conversation, user or cursor asked
\* for, opts the options of chat.postMessage.
Request(method, kind, idx, sub, arg, opts) ==
    [id |-> Len(webLog) + 1, method |-> method, kind |-> kind, idx |-> idx,
     sub |-> sub, arg |-> arg, opts |-> opts]

\* The adapter calls a Web API method: the request joins the client's queue.
Enqueue(reqs) ==
    /\ webQueue' = webQueue \o reqs
    /\ webLog' = webLog \o reqs

\* The WebClient puts the oldest queued request on the wire when fewer than
\* maxRequestConcurrency are there.
WebDispatch ==
    /\ webQueue # <<>>
    /\ Cardinality(webInFlight) < MaxRequestConcurrency
    /\ webInFlight' = webInFlight \cup {Head(webQueue)}
    /\ webQueue' = Tail(webQueue)
    /\ UNCHANGED <<now, ttl, logged, cacheVars, webLog, userVars, loads, lifeVars,
                   eventVars, sendVars>>

\* Date.now() advances.
Tick ==
    /\ now < MaxTime
    /\ now' = now + 1
    /\ UNCHANGED <<ttl, logged, cacheVars, webVars, userVars, loads, lifeVars,
                   eventVars, sendVars>>

(***************************************************************************)
(* SlackClient.fetchConversation                                           *)
(***************************************************************************)
Expiration == Minus(Num(now), ttl)

CacheHitInclusive(conversationId) ==
    /\ channelData[conversationId].present
    /\ channelData[conversationId].channel # NullChannel
    /\ LessOrEqual(Expiration, Num(channelData[conversationId].updated))

CacheHit(conversationId) ==
    /\ channelData[conversationId].present
    /\ channelData[conversationId].channel # NullChannel
    /\ Less(Expiration, Num(channelData[conversationId].updated))

\* The synchronous part of fetchConversation: up to the await.
FetchConversation(conversationId) ==
    /\ Len(fcCalls) < MaxFetchCalls
    /\ LET k == Len(fcCalls) + 1
           call == [conv |-> conversationId, calledAt |-> now,
                    entry |-> channelData[conversationId],
                    state |-> "waiting", result |-> NullChannel,
                    doneAt |-> 0, stored |-> NoEntry]
       IN IF CacheHit(conversationId)
          THEN /\ fcCalls' = Append(fcCalls,
                     [call EXCEPT !.state = "done",
                                  !.result = channelData[conversationId].channel,
                                  !.doneAt = now,
                                  !.stored = channelData[conversationId]])
               /\ UNCHANGED <<channelData, webVars>>
          ELSE /\ channelData' = [channelData EXCEPT ![conversationId] = NoEntry]
               /\ Enqueue(<<Request("conversations.info", "fc", k, 0, conversationId, NoOpts)>>)
               /\ UNCHANGED webInFlight
               /\ fcCalls' = Append(fcCalls, call)
    /\ UNCHANGED <<now, ttl, logged, userVars, loads, lifeVars, eventVars, sendVars>>

\* conversations.info resolves: the rest of fetchConversation.
FetchConversationResolved(r, channel) ==
    /\ r \in webInFlight /\ r.kind = "fc"
    /\ webInFlight' = webInFlight \ {r}
    /\ channelData' = IF channel # NullChannel
                      THEN [channelData EXCEPT ![r.arg] =
                                [present |-> TRUE, channel |-> channel, updated |-> now]]
                      ELSE channelData
    /\ fcCalls' = [fcCalls EXCEPT ![r.idx] =
                      [@ EXCEPT !.state = "done", !.result = channel, !.doneAt = now,
                                !.stored = channelData'[r.arg]]]
    /\ UNCHANGED <<now, ttl, logged, webQueue, webLog, userVars, loads, lifeVars,
                   eventVars, sendVars>>

\* conversations.info rejects: fetchConversation rejects, nothing is stored.
FetchConversationRejected(r) ==
    /\ r \in webInFlight /\ r.kind = "fc"
    /\ webInFlight' = webInFlight \ {r}
    /\ fcCalls' = [fcCalls EXCEPT ![r.idx] =
                      [@ EXCEPT !.state = "failed", !.doneAt = now,
                                !.stored = channelData[r.arg]]]
    /\ UNCHANGED <<now, ttl, logged, channelData, webQueue, webLog, userVars, loads,
                   lifeVars, eventVars, sendVars>>

(***************************************************************************)
(* The user directory: robot.brain (collaborator) and                      *)
(* SlackClient.updateUserInBrain                                           *)
(***************************************************************************)
\* hubot's new User(id, options): the options' keys are copied over the id,
\* and a user without a name is named by its id.
NewUser(id, opts) ==
    LET base == [k \in DOMAIN opts \cup {"id"} |->
                    IF k \in DOMAIN opts THEN opts[k] ELSE id]
    IN IF Falsy(Get(base, "name")) THEN Put(base, "name", base["id"]) ELSE base

\* hubot's brain.userForId(id, options): the stored user; a new one when none
\* is stored, or when the options name a room that the stored user is not in.
UserForId(us, id, opts) ==
    IF id \notin DOMAIN us
    THEN Put(us, id, NewUser(id, opts))
    ELSE IF ~Falsy(Get(opts, "room")) /\ Get(us[id], "room") # opts["room"]
         THEN Put(us, id, NewUser(id, opts))
         ELSE us

\* user.profile?.email
ProfileEmail(user) ==
    IF "profile" \in DOMAIN user /\ "email" \in DOMAIN user["profile"]
    THEN user["profile"]["email"]
    ELSE Undefined

\* event_or_user.type === 'user_change' ? event_or_user.user : event_or_user
SightedUser(event_or_user) ==
    IF Get(event_or_user, "type") = "user_change"
    THEN event_or_user["user"]
    ELSE event_or_user

\* A faulty variant: the platform fields of the stored record are kept and the new
\* ones added to them.
NewUserRecordKeepingSlack(user, stored) ==
    LET old == IF "slack" \in DOMAIN stored THEN stored["slack"] ELSE EmptyObject
        fresh == [id |-> Get(user, "id"), name |-> Get(user, "name"),
                  real_name |-> Get(user, "real_name"),
                  slack |-> [k \in DOMAIN user \cup DOMAIN old |->
                                IF k \in DOMAIN user THEN user[k] ELSE old[k]]]
        newUser == IF ProfileEmail(user) # Undefined
                   THEN Put(fresh, "email_address", ProfileEmail(user))
                   ELSE fresh
    IN [k \in DOMAIN newUser \cup DOMAIN stored |->
           IF k \in DOMAIN newUser THEN newUser[k] ELSE stored[k]]

\* The record updateUserInBrain builds from a sighted user and the record the
\* brain holds for it (EmptyObject when it holds none).
NewUserRecord(user, stored) ==
    LET fresh == [id |-> Get(user, "id"), name |-> Get(user, "name"),
                  real_name |-> Get(user, "real_name"), slack |-> user]
        newUser == IF ProfileEmail(user) # Undefined
                   THEN Put(fresh, "email_address", ProfileEmail(user))
                   ELSE fresh
    IN [k \in DOMAIN newUser \cup DOMAIN stored |->
           IF k \in DOMAIN newUser THEN newUser[k] ELSE stored[k]]

UpdateUserInBrain(us, event_or_user) ==
    LET user == SightedUser(event_or_user)
        stored == IF user["id"] \in DOMAIN us THEN us[user["id"]] ELSE EmptyObject
    IN UserForId(Delete(us, user["id"]), user["id"], NewUserRecord(user, stored))

\* usersLoaded's res.members.map(member => updateUserInBrain(member))
RECURSIVE UpdateAll(_, _)
UpdateAll(us, members) ==
    IF members = <<>> THEN us
    ELSE UpdateAll(UpdateUserInBrain(us, Head(members)), Tail(members))

\* history: what the last of the updates of `members` was given and made.
Front(seq) == SubSeq(seq, 1, Len(seq) - 1)
UpdateRecord(us, lu, members) ==
    IF members = <<>> THEN lu
    ELSE LET before == UpdateAll(us, Front(members))
             user == SightedUser(members[Len(members)])
         IN [n |-> lu.n + Len(members), user |-> user["id"], payload |-> user,
             had |-> user["id"] \in DOMAIN before,
             before |-> IF user["id"] \in DOMAIN before THEN before[user["id"]]
                        ELSE EmptyObject,
             after |-> UpdateAll(us, members)[user["id"]]]

\* updateUserInBrain called with a user object, or with a "user_change"
\* event.
UserSighting(event_or_user) ==
    /\ lastUpdate.n < MaxUpdates
    /\ users' = UpdateUserInBrain(users, event_or_user)
    /\ lastUpdate' = UpdateRecord(users, lastUpdate, <<event_or_user>>)
    /\ UNCHANGED <<now, ttl, logged, cacheVars, webVars, loads, lifeVars, eventVars,
                   sendVars>>

\* fetchUser up to its await of users.info; a user that the brain holds is
\* returned without a request.  A call counts among the MaxUpdates updates
\* of the brain.
FetchUser(userId) ==
    /\ lastUpdate.n + Cardinality({i \in DOMAIN webLog : webLog[i].kind = "fetch"})
           < MaxUpdates
    /\ userId \notin DOMAIN users
    /\ Enqueue(<<Request("users.info", "fetch", 0, 0, userId, NoOpts)>>)
    /\ UNCHANGED <<now, ttl, logged, cacheVars, webInFlight, userVars, loads, lifeVars,
                   eventVars, sendVars>>

\* users.info resolves for fetchUser: updateUserInBrain(r.user).
FetchUserResolved(r, user) ==
    /\ r \in webInFlight /\ r.kind = "fetch"
    /\ user["id"] = r.arg
    /\ webInFlight' = webInFlight \ {r}
    /\ users' = UpdateUserInBrain(users, user)
    /\ lastUpdate' = UpdateRecord(users, lastUpdate, <<user>>)
    /\ UNCHANGED <<now, ttl, logged, cacheVars, webQueue, webLog, loads, lifeVars,
                   eventVars, sendVars>>

\* users.info rejects for fetchUser: fetchUser rejects, the brain is as it was.
FetchUserRejected(r) ==
    /\ r \in webInFlight /\ r.kind = "fetch"
    /\ webInFlight' = webInFlight \ {r}
    /\ UNCHANGED <<now, ttl, logged, cacheVars, webQueue, webLog, userVars, loads,
                   lifeVars, eventVars, sendVars>>

(***************************************************************************)
(* SlackClient.loadUsers and SlackBot.usersLoaded                          *)
(***************************************************************************)
\* The member lists a page of users.list may hold.
PageMembers ==
    {<<>>,
     <<[id |-> "U1", name |-> "alice", real_name |-> "Alice A", tz |-> "utc",
        profile |-> [email |-> "a@x"]]>>,
     <<[id |-> "U1", name |-> "alice2", profile |-> [title |-> "dev"]],
       [id |-> "UBOT", name |-> "hubot", real_name |-> "Hubot"]>>}
Cursors == {Undefined, "", "cursor"}

NewLoad == [members |-> <<>>, pages |-> <<>>, requested |-> 1, answered |-> 0,
            cursors |-> <<>>, cbCount |-> 0, cbError |-> FALSE, cbMembers |-> <<>>,
            written |-> <<>>]

\* usersLoaded(err, res), the callback of every load.
UsersLoadedWrites(err, members) == IF err \/ Len(members) = 0 THEN <<>> ELSE members

\* A faulty variant: the members gathered so far are written even when a page failed.
CallbackOnErrorPartial(load) ==
    [load EXCEPT !.cbCount = @ + 1, !.cbError = TRUE, !.answered = @ + 1,
                 !.written = load.members]

\* pageLoaded(error): return callback(error)
CallbackOnError(load) ==
    [load EXCEPT !.cbCount = @ + 1, !.cbError = TRUE, !.answered = @ + 1,
                 !.written = UsersLoadedWrites(TRUE, <<>>)]

\* A page of users.list fails.
PageFailed(r) ==
    /\ r \in webInFlight /\ r.kind = "load"
    /\ webInFlight' = webInFlight \ {r}
    /\ loads' = [loads EXCEPT ![r.idx] = CallbackOnError(@)]
    /\ users' = UpdateAll(users, loads'[r.idx].written)
    /\ lastUpdate' = UpdateRecord(users, lastUpdate, loads'[r.idx].written)
    /\ logged' = logged + 1
    /\ UNCHANGED <<now, ttl, cacheVars, webQueue, webLog, lifeVars, eventVars, sendVars>>

\* A page of users.list arrives: pageLoaded(null, results).
PageLoaded(r, members, cursor) ==
    /\ r \in webInFlight /\ r.kind = "load"
    /\ webInFlight' = webInFlight \ {r}
    /\ LET load == loads[r.idx]
           combined == load.members \o members
           seen == [load EXCEPT !.members = combined,
                                !.pages = Append(@, members),
                                !.cursors = Append(@, cursor),
                                !.answered = @ + 1]
       IN IF ~Falsy(cursor)
          THEN \* the chain of pages is finite
               /\ load.requested < MaxPages
               /\ webQueue' = Append(webQueue, Request("users.list", "load", r.idx, 0, cursor, NoOpts))
               /\ webLog' = Append(webLog, Request("users.list", "load", r.idx, 0, cursor, NoOpts))
               /\ loads' = [loads EXCEPT ![r.idx] = [seen EXCEPT !.requested = @ + 1]]
               /\ UNCHANGED <<users, lastUpdate, logged>>
          ELSE /\ loads' = [loads EXCEPT ![r.idx] =
                               [seen EXCEPT !.cbCount = @ + 1, !.cbMembers = combined,
                                            !.written = UsersLoadedWrites(FALSE, combined)]]
               /\ users' = UpdateAll(users, UsersLoadedWrites(FALSE, combined))
               /\ lastUpdate' = UpdateRecord(users, lastUpdate,
                                             UsersLoadedWrites(FALSE, combined))
               /\ logged' = IF Len(combined) = 0 THEN logged + 1 ELSE logged
               /\ UNCHANGED <<webQueue, webLog>>
    /\ UNCHANGED <<now, ttl, cacheVars, lifeVars, eventVars, sendVars>>

(***************************************************************************)
(* SlackBot.run, the brain's "loaded" and SlackBot.authenticated           *)
(***************************************************************************)
\* A token is modelled by its first five characters.
BotTokens == {Undefined, "xoxb-", "xoxp-", "xoxa-"}
AppTokens == {Undefined, "xapp-", "xoxb-"}

\* A faulty variant: the prefix of the app token is not looked at.
TokensOkAnyAppPrefix ==
    /\ ~Falsy(options.botToken)
    /\ ~Falsy(options.appToken)
    /\ options.botToken \in {"xoxb-", "xoxp-"}

TokensOk ==
    /\ ~Falsy(options.botToken)
    /\ ~Falsy(options.appToken)
    /\ options.botToken \in {"xoxb-", "xoxp-"}
    /\ options.appToken \in {"xapp-"}

\* run() with a token missing or malformed: an error is logged, nothing else.
RunRefused ==
    /\ runState = "new"
    /\ ~TokensOk
    /\ runState' = "refused"
    /\ logged' = logged + 1
    /\ UNCHANGED <<now, ttl, cacheVars, webVars, userVars, loads, options, eventHandler,
                   brainListener, brainIsLoaded, self, eventVars, sendVars>>

\* run() up to its await of client.connect().
Run ==
    /\ runState = "new"
    /\ TokensOk
    /\ eventHandler' = TRUE
    /\ brainListener' = TRUE
    /\ IF ~options.disableUserSync
       THEN             /\ loads' = Append(loads, NewLoad)
            /\ Enqueue(<<Request("users.list", "load", Len(loads) + 1, 0, Undefined, NoOpts)>>)
            /\ UNCHANGED brainIsLoaded
       ELSE /\ brainIsLoaded' = TRUE
            /\ UNCHANGED <<loads, webQueue, webLog>>
    /\ runState' = "connecting"
    /\ UNCHANGED <<now, ttl, logged, cacheVars, webInFlight, userVars, options, self,
                   eventVars, sendVars>>

\* socket.start() resolves: the rest of run().
Connected ==
    /\ runState = "connecting"
    /\ runState' = "connected"
    /\ UNCHANGED <<now, ttl, logged, cacheVars, webVars, userVars, loads, options,
                   eventHandler, brainListener, brainIsLoaded, self, eventVars, sendVars>>

\* The socket emits "error" to the listener that run registered:
\* SlackBot.error logs it (and emits it on the robot unless its code is -1).
SocketError ==
    /\ runState \in {"connecting", "connected"}
    /\ logged < MaxErrors
    /\ logged' = logged + 1
    /\ UNCHANGED <<now, ttl, cacheVars, webVars, userVars, loads, lifeVars, eventVars,
                   sendVars>>

\* The brain emits "loaded" for the first time since run listens.
BrainLoaded ==
    /\ brainListener
    /\ ~brainIsLoaded
    /\ brainIsLoaded' = TRUE
    /\ loads' = Append(loads, NewLoad)
    /\ Enqueue(<<Request("users.list", "load", Len(loads) + 1, 0, Undefined, NoOpts)>>)
    /\ UNCHANGED <<now, ttl, logged, cacheVars, webInFlight, userVars, options, runState,
                   eventHandler, brainListener, self, eventVars, sendVars>>

\* The socket emits "authenticated": authenticated() up to its await of
\* auth.test().  (The client's eventWrapper is called too, and its handler
\* returns at once: the identity carries neither ack nor body.)
Authenticated ==
    /\ runState \in {"connecting", "connected"}
    /\ self = EmptyObject
    /\ Cardinality({i \in DOMAIN webLog : webLog[i].kind = "auth"}) < MaxAuth
    /\ Enqueue(<<Request("auth.test", "auth", 0, 0, Undefined, NoOpts)>>)
    /\ UNCHANGED <<now, ttl, logged, cacheVars, webInFlight, userVars, loads, lifeVars,
                   eventVars, sendVars>>

\* auth.test resolves: this.self is set.
AuthTestResolved(r) ==
    /\ r \in webInFlight /\ r.kind = "auth"
    /\ webInFlight' = webInFlight \ {r}
    /\ self' = [user_id |-> BotId, user |-> "hubot", team |-> "T1"]
    /\ UNCHANGED <<now, ttl, logged, cacheVars, webQueue, webLog, userVars, loads,
                   options, runState, eventHandler, brainListener, brainIsLoaded,
                   eventVars, sendVars>>

\* auth.test rejects: authenticated() rejects, this.self stays unset.
AuthTestRejected(r) ==
    /\ r \in webInFlight /\ r.kind = "auth"
    /\ webInFlight' = webInFlight \ {r}
    /\ UNCHANGED <<now, ttl, logged, cacheVars, webQueue, webLog, userVars, loads,
                   lifeVars, eventVars, sendVars>>

(***************************************************************************)
(* Inbound events: SlackClient.eventWrapper and SlackBot.eventHandler      *)
(***************************************************************************)
\* A text is a sequence of tokens; the mention of user u is the token <@u>.
Mention(userId) == "<@" \o userId \o ">"
Includes(text, tokens) == \E i \in DOMAIN text : text[i] \in tokens
FirstOf(text, tokens) == CHOOSE i \in DOMAIN text :
                            text[i] \in tokens /\ \A j \in 1..(i - 1) : text[j] \notin tokens

\* A faulty variant: the mention is put before the text in every conversation.
AddBotIdAnywhere(event) ==
    IF /\ event.text # <<>>
       /\ ~Includes(event.text, {self["user_id"], Mention(self["user_id"])})
    THEN <<Mention(self["user_id"]), " ">> \o event.text
    ELSE event.text

\* addBotIdToMessage(event)
AddBotIdToMessage(event) ==
    IF /\ event.text # <<>>
       /\ event.channel_type = "im"
       /\ ~Includes(event.text, {self["user_id"], Mention(self["user_id"])})
    THEN <<Mention(self["user_id"]), " ">> \o event.text
    ELSE event.text

\* replaceBotIdWithName(event); robot.name is self.user once authenticated.
ReplaceBotIdWithName(event) ==
    IF Includes(event.text, {Mention(self["user_id"])})
    THEN [event.text EXCEPT ![FirstOf(event.text, {Mention(self["user_id"])})] =
             IF ~Falsy(options.alias) THEN options.alias ELSE "@" \o self["user"]]
    ELSE event.text

EventTypes == {"message", "member_joined_channel", "member_left_channel",
               "reaction_added", "reaction_removed", "file_shared"}

\* An event of type t by user u, as the socket hands it to eventWrapper.
Event(t, u, a) ==
    [type |-> t, user |-> u, hasAck |-> a,
     channel |-> IF t \in {"reaction_added", "reaction_removed", "file_shared"}
                 THEN Undefined ELSE "C1",
     channel_type |-> "channel",
     text |-> IF t = "message" THEN <<"hello">> ELSE <<>>,
     ts |-> "10", event_ts |-> "11", envelope_ts |-> Undefined,
     item |-> IF t \in {"reaction_added", "reaction_removed"}
              THEN [type |-> "message", channel |-> "C1", ts |-> "9"]
              ELSE EmptyObject,
     item_user |-> EmptyObject,
     file_id |-> IF t = "file_shared" THEN "F1" ELSE Undefined]

\* The events the socket delivers to eventWrapper: every type by a user and
\* by the bot itself, and messages with no user or with no acknowledgement.
InboundEvents ==
    {Event(t, u, TRUE) : t \in EventTypes, u \in UserIds}
        \cup {Event("message", u, FALSE) : u \in UserIds \cup {Undefined}}
        \cup {Event("message", Undefined, TRUE)}

NewTask(ev) == [ev |-> ev, pc |-> "new", acks |-> 0, text |-> <<>>]

\* The handler of task i of evs pauses or ends at pc.
At(evs, i, pc) == events' = [evs EXCEPT ![i].pc = pc]

\* A faulty variant: eventWrapper without its try and catch.
HandlerThrowsUncaught(evs, i) ==
    /\ At(evs, i, "escaped")
    /\ logged' = logged

\* The handler throws: its promise rejects.  eventWrapper, which awaits it,
\* catches and logs in a later step.
HandlerThrows(evs, i) ==
    /\ At(evs, i, "thrown")
    /\ logged' = logged

\* The message that the dispatch on the event's type makes.
EventKind(ev) ==
    CASE ev.type = "member_joined_channel" -> "Enter"
      [] ev.type = "member_left_channel" -> "Leave"
      [] ev.type \in {"reaction_added", "reaction_removed"} -> "Reaction"
      [] ev.type = "file_shared" -> "FileShared"
      [] OTHER -> "Text"

\* A faulty variant: the Leave message is stamped like the Enter message.
MessageTsOfEvent(kind, ev) ==
    CASE kind \in {"Reaction", "FileShared"} -> ev.event_ts
      [] OTHER -> ev.ts

\* The timestamp given to the message: message.event.ts for Enter, message.ts
\* (the envelope's) for Leave, event_ts for Reaction and FileShared.
MessageTs(kind, ev) ==
    CASE kind = "Enter" -> ev.ts
      [] kind = "Leave" -> ev.envelope_ts
      [] kind \in {"Reaction", "FileShared"} -> ev.event_ts
      [] OTHER -> ev.ts

\* A faulty variant: the room of a reaction is the event's channel.
FromRoomOfChannel(ev) == IF ev.channel = Undefined THEN "" ELSE ev.channel

\* from.room: channel ?? '', and for a reaction the channel of the item when
\* the item is a message, '' otherwise.
FromRoom(ev) ==
    IF EventKind(ev) = "Reaction"
    THEN IF ev.item["type"] = "message" THEN ev.item["channel"] ELSE ""
    ELSE IF ev.channel = Undefined THEN "" ELSE ev.channel

\* The event has an item_user (EmptyObject stands for none).
HasItemUser(ev) == EventKind(ev) = "Reaction" /\ ev.item_user # EmptyObject

\* brain.userForId(item_user.id, item_user) throws: a user that the brain
\* does not hold is made, and new User reads this.id.toString() for the name
\* of a user that has neither name nor id.
ItemUserThrows(us, ev) ==
    /\ HasItemUser(ev)
    /\ Get(ev.item_user, "id") \notin DOMAIN us
    /\ Falsy(Get(ev.item_user, "name"))
    /\ Get(ev.item_user, "id") = Undefined

\* The item_user given to the ReactionMessage: the brain's user, or {}.
ItemUser(us, ev) ==
    IF HasItemUser(ev)
    THEN UserForId(us, Get(ev.item_user, "id"), ev.item_user)[Get(ev.item_user, "id")]
    ELSE EmptyObject

\* The message handed to receive for task i.
Received(i, kind, ev, room, text, itemUser) ==
    [task |-> i, kind |-> kind, user |-> ev.user,
     room |-> IF kind = "Leave" THEN Undefined ELSE room,
     ts |-> MessageTs(kind, ev), text |-> text, item_user |-> itemUser]

\* The dispatch of eventHandler (lines 482-533) for task i of evs, `from`
\* being the acting user, held by the brain `us`.
Dispatch(evs, i, us) ==
    LET ev == evs[i].ev
        kind == EventKind(ev)
        text == ReplaceBotIdWithName([ev EXCEPT !.text = AddBotIdToMessage(ev)])
        us1 == Put(us, ev.user, Put(us[ev.user], "room", FromRoom(ev)))
    IN IF ItemUserThrows(us1, ev)
       THEN \* caught and logged by the handler's own catch
            /\ users' = us1
            /\ logged' = logged + 1
            /\ events' = [evs EXCEPT ![i].pc = "dropped", ![i].text = text]
            /\ UNCHANGED received
       ELSE /\ users' = IF HasItemUser(ev)
                        THEN UserForId(us1, Get(ev.item_user, "id"), ev.item_user)
                        ELSE us1
            /\ logged' = logged
            /\ IF kind = "Text"
               THEN /\ events' = [evs EXCEPT ![i].pc = "make", ![i].text = text]
                    /\ UNCHANGED received
               ELSE /\ events' = [evs EXCEPT ![i].pc = "receive", ![i].text = text]
                    /\ received' = Append(received,
                           Received(i, kind, ev, FromRoom(ev), text, ItemUser(us1, ev)))

\* A faulty variant: eventHandler without its "Ignore anything we sent".
NormalizeNoSelfCheck(evs, i, us) ==
    IF self = EmptyObject
    THEN HandlerThrows(evs, i) /\ users' = us /\ UNCHANGED received
    ELSE Dispatch(evs, i, us)

\* Lines 460-533 of eventHandler for task i of evs, with the brain as `us`
\* (the acting user is in it), up to the await of receive or of
\* makeSlackTextMessage.  With this.self unset, reading this.self.user_id throws.
Normalize(evs, i, us) ==
    IF self = EmptyObject
    THEN HandlerThrows(evs, i) /\ users' = us /\ UNCHANGED received
    ELSE IF us[evs[i].ev.user]["id"] = self["user_id"]
         THEN At(evs, i, "self") /\ users' = us /\ UNCHANGED <<logged, received>>
         ELSE Dispatch(evs, i, us)

\* Lines 444-458 of eventHandler for task i of evs: after the acknowledgement,
\* up to the await of users.info when the brain does not hold the user.
ResolveUser(evs, i) ==
    LET ev == evs[i].ev
    IN IF Falsy(ev.user)
       THEN At(evs, i, "noactor") /\ UNCHANGED <<logged, users, received, webVars>>
       ELSE IF ev.user \notin DOMAIN users
            THEN /\ Enqueue(<<Request("users.info", "event", i, 0, ev.user, NoOpts)>>)
                 /\ UNCHANGED webInFlight
                 /\ At(evs, i, "user")
                 /\ UNCHANGED <<logged, users, received>>
            ELSE Normalize(evs, i, users) /\ UNCHANGED webVars

\* Lines 438-442 of eventHandler: message.ack is called and awaited.
HandlerStart(evs, i) ==
    IF evs[i].ev.hasAck
    THEN /\ events' = [evs EXCEPT ![i].pc = "ack", ![i].acks = @ + 1]
         /\ UNCHANGED <<logged, users, received, webVars>>
    ELSE ResolveUser(evs, i)

\* The socket delivers an event to eventWrapper, which calls the handler if
\* one is set.
EventWrapper(ev) ==
    /\ runState \in {"connecting", "connected"}
    /\ LET i == Len(events) + 1
           evs == Append(events, NewTask(ev))
       IN IF ~eventHandler
          THEN /\ At(evs, i, "ignored")
               /\ UNCHANGED <<logged, users, received, webVars>>
          ELSE HandlerStart(evs, i)
    /\ UNCHANGED <<now, ttl, cacheVars, lastUpdate, loads, lifeVars, sendVars>>

\* eventWrapper's await returns with the rejection of the handler: the catch
\* logs the error.
EventWrapperCatch(i) ==
    /\ i \in DOMAIN events /\ events[i].pc = "thrown"
    /\ At(events, i, "failed")
    /\ logged' = logged + 1
    /\ UNCHANGED <<now, ttl, cacheVars, webVars, userVars, loads, lifeVars, received,
                   sendVars>>

\* An event delivered while fewer than MaxEvents have been.
Deliver(ev) == Len(events) < MaxEvents /\ EventWrapper(ev)

\* What the socket hands to the listeners of an event's type: the envelope,
\* with the event in it and the function that acknowledges it.
SocketEnvelope(event, hasAck) ==
    LET envelope == [envelope_id |-> "E1", body |-> [event |-> event], event |-> event]
    IN IF hasAck THEN Put(envelope, "ack", "function") ELSE envelope

\* updateUserInBrain throws: the record is stored by brain.userForId as a new
\* user, and new User reads this.id.toString() for the name of a user that
\* has neither name nor id.
UpdateUserInBrainThrows(event_or_user) ==
    LET user == SightedUser(event_or_user)
    IN Get(user, "id") = Undefined /\ Falsy(Get(user, "name"))

\* The socket delivers a "user_change" event to its listener, updateUserInBrain,
\* which is given the envelope: the envelope has no type, so it is taken for
\* the user.  Nothing catches what updateUserInBrain throws.
DeliverUserChange(user, hasAck) ==
    /\ runState \in {"connecting", "connected"}
    /\ Len(events) < MaxEvents
    /\ lastUpdate.n < MaxUpdates
    /\ LET envelope == SocketEnvelope(UserChange(user), hasAck)
           task == NewTask([type |-> "user_change", user |-> user["id"],
                            hasAck |-> hasAck,
                            channel |-> Undefined, channel_type |-> Undefined,
                            text |-> <<>>, ts |-> Undefined, event_ts |-> "11",
                            envelope_ts |-> Undefined, item |-> EmptyObject,
                            item_user |-> EmptyObject, file_id |-> Undefined])
       IN IF UpdateUserInBrainThrows(envelope)
          THEN /\ events' = Append(events, [task EXCEPT !.pc = "raised"])
               /\ users' = Delete(users, Get(SightedUser(envelope), "id"))
               /\ UNCHANGED lastUpdate
          ELSE /\ events' = Append(events, [task EXCEPT !.pc = "updated"])
               /\ users' = UpdateUserInBrain(users, envelope)
               /\ lastUpdate' = UpdateRecord(users, lastUpdate, <<envelope>>)
    /\ UNCHANGED <<now, ttl, logged, cacheVars, webVars, loads, lifeVars, received,
                   sendVars>>

\* message.ack() resolves: the handler goes on.
AckResolved(i) ==
    /\ i \in DOMAIN events /\ events[i].pc = "ack"
    /\ ResolveUser(events, i)
    /\ UNCHANGED <<now, ttl, cacheVars, lastUpdate, loads, lifeVars, sendVars>>

\* message.ack() rejects: the handler throws.
AckRejected(i) ==
    /\ i \in DOMAIN events /\ events[i].pc = "ack"
    /\ HandlerThrows(events, i)
    /\ UNCHANGED <<now, ttl, cacheVars, webVars, userVars, loads, lifeVars, received,
                   sendVars>>

\* users.info resolves: brain.userForId(user, userResponse.user), and on.
UserInfoResolved(r, user) ==
    /\ r \in webInFlight /\ r.kind = "event"
    /\ user["id"] = r.arg
    /\ webInFlight' = webInFlight \ {r}
    /\ Normalize(events, r.idx, UserForId(users, r.arg, user))
    /\ UNCHANGED <<now, ttl, cacheVars, webQueue, webLog, lastUpdate, loads, lifeVars,
                   sendVars>>

\* users.info rejects: the handler throws.
UserInfoRejected(r) ==
    /\ r \in webInFlight /\ r.kind = "event"
    /\ webInFlight' = webInFlight \ {r}
    /\ HandlerThrows(events, r.idx)
    /\ UNCHANGED <<now, ttl, cacheVars, webQueue, webLog, userVars, loads, lifeVars,
                   received, sendVars>>

\* makeSlackTextMessage resolves: the message is handed to receive.
MessageMade(i) ==
    /\ i \in DOMAIN events /\ events[i].pc = "make"
    /\ At(events, i, "receive")
    /\ received' = Append(received,
          Received(i, "Text", events[i].ev, Get(users[events[i].ev.user], "room"),
                   events[i].text, EmptyObject))
    /\ UNCHANGED <<now, ttl, logged, cacheVars, webVars, userVars, loads, lifeVars,
                   sendVars>>

\* makeSlackTextMessage rejects: logged, the message is dropped.
MessageNotMade(i) ==
    /\ i \in DOMAIN events /\ events[i].pc = "make"
    /\ At(events, i, "dropped")
    /\ logged' = logged + 1
    /\ UNCHANGED <<now, ttl, cacheVars, webVars, userVars, loads, lifeVars, received,
                   sendVars>>

\* receive resolves, or rejects and is logged: the handler returns.
ReceiveSettled(i, ok) ==
    /\ i \in DOMAIN events /\ events[i].pc = "receive"
    /\ At(events, i, IF ok THEN "done" ELSE "dropped")
    /\ logged' = IF ok THEN logged ELSE logged + 1
    /\ UNCHANGED <<now, ttl, cacheVars, webVars, userVars, loads, lifeVars, received,
                   sendVars>>

(***************************************************************************)
(* Outbound: SlackBot.send, SlackBot.reply and SlackClient.send            *)
(***************************************************************************)
\* A message is a string or an object; each is modelled with both members,
\* the one that is not meant being empty.  A string is the sequence of its
\* characters.
StringMessage(str) == [isString |-> TRUE, str |-> str, obj |-> EmptyObject]
ObjectMessage(obj) == [isString |-> FALSE, str |-> Undefined, obj |-> obj]

\* envelope.room[0]
FirstChar(room) ==
    CASE room = "D1" -> "D"
      [] room = "C1" -> "C"
      [] OTHER -> Undefined

\* `${message}`
ObjectObject ==
    <<"[", "o", "b", "j", "e", "c", "t", " ", "O", "b", "j", "e", "c", "t", "]">>
AsString(message) == IF message.isString THEN message.str ELSE ObjectObject

\* message !== ""
NotEmptyString(message) == ~(message.isString /\ message.str = <<>>)

\* {...message}: the own members of an object; of a string, its characters
\* under the keys "0", "1", ...
Spread(message) ==
    IF message.isString
    THEN [k \in {ToString(i - 1) : i \in DOMAIN message.str} |->
             message.str[CHOOSE i \in DOMAIN message.str : ToString(i - 1) = k]]
    ELSE message.obj

\* SlackClient.send's messageOptions: channel, text and thread_ts, then the
\* message spread over them.
MessageOptions(room, envelope, message) ==
    LET computed == [channel |-> room,
                     text |-> IF message.isString THEN message.str
                              ELSE Get(message.obj, "text"),
                     thread_ts |-> envelope.thread_ts]
        spread == Spread(message)
    IN [k \in DOMAIN computed \cup DOMAIN spread |->
           IF k \in DOMAIN spread THEN spread[k] ELSE computed[k]]

\* envelope.room || envelope.id
RoomOf(envelope) == IF ~Falsy(envelope.room) THEN envelope.room ELSE envelope.id

\* SlackClient.send goes on to chat.postMessage: room != null.
ClientSends(envelope, message) == RoomOf(envelope) # Undefined

\* reply's change of a message: the user's mention before it, outside a DM.
Replied(envelope, message) ==
    IF FirstChar(envelope.room) # "D"
    THEN StringMessage(<<"<", "@">> \o envelope.user \o <<">", ":", " ">>
                       \o AsString(message))
    ELSE message

\* reply reads envelope.room[0]: a TypeError when the envelope has no room.
ReplyThrows(envelope, messages) ==
    /\ envelope.room = Undefined
    /\ \E i \in DOMAIN messages : NotEmptyString(messages[i])

\* The messages that the call hands to SlackClient.send, with their places.
Handed(api, envelope, messages) ==
    [i \in {j \in DOMAIN messages : NotEmptyString(messages[j])} |->
        IF api = "reply" THEN Replied(envelope, messages[i]) ELSE messages[i]]

\* The requests that the call's messages make, in the order of the messages.
RECURSIVE PostRequests(_, _, _, _, _, _)
PostRequests(k, envelope, handed, i, last, made) ==
    IF i > last THEN <<>>
    ELSE IF i \in DOMAIN handed /\ ClientSends(envelope, handed[i])
         THEN <<[id |-> Len(webLog) + made + 1, method |-> "chat.postMessage",
                 kind |-> "send", idx |-> k, sub |-> i, arg |-> Undefined,
                 opts |-> MessageOptions(RoomOf(envelope), envelope, handed[i])]>>
              \o PostRequests(k, envelope, handed, i + 1, last, made + 1)
         ELSE PostRequests(k, envelope, handed, i + 1, last, made)

\* A faulty variant: the callback is given the error of a failed chat.postMessage.
SendSettledRaising(call, r, ok) ==
    LET pending == call.pending \ {r.id}
    IN [call EXCEPT !.pending = pending,
                    !.failures = IF ok THEN @ ELSE @ + 1,
                    !.failuresLogged = IF ok THEN @ ELSE @ + 1,
                    !.state = IF pending = {} THEN "resolved" ELSE @,
                    !.cbCount = IF pending = {} THEN @ + 1 ELSE @,
                    !.cbError = IF pending = {} THEN (call.failures > 0 \/ ~ok) ELSE @]

\* One chat.postMessage of the call settles: SlackClient.send logs a failure
\* and resolves either way.
SendSettled(call, r, ok) ==
    [call EXCEPT !.pending = call.pending \ {r.id},
                 !.failures = IF ok THEN @ ELSE @ + 1,
                 !.failuresLogged = IF ok THEN @ ELSE @ + 1]

\* SlackBot.send or SlackBot.reply, up to the await of Promise.all.  A send
\* without a room logs an error and resolves.
Send(api, envelope, messages) ==
    /\ Len(sends) < MaxSends
    /\ LET k == Len(sends) + 1
           call == [api |-> api, envelope |-> envelope, messages |-> messages,
                    pending |-> {}, state |-> "waiting", cbCount |-> 0,
                    cbError |-> FALSE, refusalsLogged |-> 0, failures |-> 0,
                    failuresLogged |-> 0]
       IN IF api = "reply" /\ ReplyThrows(envelope, messages)
          THEN /\ sends' = Append(sends, [call EXCEPT !.state = "rejected"])
               /\ UNCHANGED <<logged, webVars>>
          ELSE LET handed == Handed(api, envelope, messages)
                   reqs == PostRequests(k, envelope, handed, 1, Len(messages), 0)
                   refused == Cardinality(DOMAIN handed) - Len(reqs)
               IN /\ Enqueue(reqs)
                  /\ UNCHANGED webInFlight
                  /\ logged' = logged + refused
                  /\ sends' = Append(sends,
                        [call EXCEPT !.pending = {reqs[i].id : i \in DOMAIN reqs},
                                     !.refusalsLogged = refused])
    /\ UNCHANGED <<now, ttl, cacheVars, userVars, loads, lifeVars, eventVars, topics>>

\* The await of Promise.all returns, every send of the call having resolved
\* (or none having been made): callback(null, null) is called, in a later
\* step than the call and than the last settlement.
SendCallback(k) ==
    /\ k \in DOMAIN sends
    /\ sends[k].state = "waiting" /\ sends[k].pending = {}
    /\ sends' = [sends EXCEPT ![k].state = "resolved", ![k].cbCount = @ + 1]
    /\ UNCHANGED <<now, ttl, logged, cacheVars, webVars, userVars, loads, lifeVars,
                   eventVars, topics>>

\* chat.postMessage resolves, or rejects and is logged.
PostMessageSettled(r, ok) ==
    /\ r \in webInFlight /\ r.kind = "send"
    /\ webInFlight' = webInFlight \ {r}
    /\ sends' = [sends EXCEPT ![r.idx] = SendSettled(@, r, ok)]
    /\ logged' = logged + (sends'[r.idx].failuresLogged - sends[r.idx].failuresLogged)
    /\ UNCHANGED <<now, ttl, cacheVars, webQueue, webLog, userVars, loads, lifeVars,
                   eventVars, topics>>

\* The envelopes and the messages that send and reply are called with.
SendEnvelopes ==
    {[room |-> Undefined, id |-> Undefined, thread_ts |-> Undefined, user |-> <<"U", "1">>],
     [room |-> "C1", id |-> Undefined, thread_ts |-> Undefined, user |-> <<"U", "1">>],
     [room |-> "D1", id |-> Undefined, thread_ts |-> "111", user |-> <<"U", "1">>],
     [room |-> Undefined, id |-> "U1", thread_ts |-> Undefined, user |-> <<"U", "1">>]}
PlainObject == ObjectMessage([text |-> <<"y", "o">>])
FullObject == ObjectMessage([text |-> <<"y", "o">>, channel |-> "C9", thread_ts |-> "222"])
MessageLists ==
    {<<StringMessage(<<>>)>>, <<FullObject>>,
     <<StringMessage(<<>>), StringMessage(<<"h", "i">>), PlainObject>>}

(***************************************************************************)
(* Outbound: SlackBot.setTopic and SlackClient.setTopic                    *)
(***************************************************************************)
\* setTopic up to its await of conversations.info.
SetTopic(conversationId) ==
    /\ Len(topics) < MaxTopics
    /\ topics' = Append(topics, [conv |-> conversationId, state |-> "info",
                                 errorsLogged |-> 0])
    /\ Enqueue(<<Request("conversations.info", "topic", Len(topics) + 1, 0,
                         conversationId, NoOpts)>>)
    /\ UNCHANGED <<now, ttl, logged, cacheVars, webInFlight, userVars, loads, lifeVars,
                   eventVars, sends>>

\* conversations.info resolves.  Without a channel, reading is_im throws
\* inside the try; a DM or MPDM has no topic; otherwise the promise of
\* conversations.setTopic is returned.
TopicInfoResolved(r, channel) ==
    /\ r \in webInFlight /\ r.kind = "topic" /\ r.method = "conversations.info"
    /\ webInFlight' = webInFlight \ {r}
    /\ IF channel = NullChannel
       THEN /\ topics' = [topics EXCEPT ![r.idx].state = "resolved",
                                        ![r.idx].errorsLogged = @ + 1]
            /\ logged' = logged + 1
            /\ UNCHANGED <<webQueue, webLog>>
       ELSE IF ~channel.is_im /\ ~channel.is_mpim
            THEN /\ topics' = [topics EXCEPT ![r.idx].state = "setting"]
                 /\ webQueue' = Append(webQueue,
                        Request("conversations.setTopic", "topic", r.idx, 0, r.arg, NoOpts))
                 /\ webLog' = Append(webLog,
                        Request("conversations.setTopic", "topic", r.idx, 0, r.arg, NoOpts))
                 /\ UNCHANGED logged
            ELSE /\ topics' = [topics EXCEPT ![r.idx].state = "resolved"]
                 /\ UNCHANGED <<logged, webQueue, webLog>>
    /\ UNCHANGED <<now, ttl, cacheVars, userVars, loads, lifeVars, eventVars, sends>>

\* conversations.info rejects: caught and logged.
TopicInfoRejected(r) ==
    /\ r \in webInFlight /\ r.kind = "topic" /\ r.method = "conversations.info"
    /\ webInFlight' = webInFlight \ {r}
    /\ topics' = [topics EXCEPT ![r.idx].state = "resolved",
                                ![r.idx].errorsLogged = @ + 1]
    /\ logged' = logged + 1
    /\ UNCHANGED <<now, ttl, cacheVars, webQueue, webLog, userVars, loads, lifeVars,
                   eventVars, sends>>

\* conversations.setTopic settles.  Its promise was returned, not awaited: a
\* rejection is the rejection of setTopic, past the try.
TopicSetSettled(r, ok) ==
    /\ r \in webInFlight /\ r.kind = "topic" /\ r.method = "conversations.setTopic"
    /\ webInFlight' = webInFlight \ {r}
    /\ topics' = [topics EXCEPT ![r.idx].state = IF ok THEN "resolved" ELSE "rejected"]
    /\ UNCHANGED <<now, ttl, logged, cacheVars, webQueue, webLog, userVars, loads,
                   lifeVars, eventVars, sends>>

(***************************************************************************)
(* Specifications.                                                         *)
(***************************************************************************)
NoUpdate == [n |-> 0, user |-> Undefined, payload |-> EmptyObject, had |-> FALSE,
             before |-> EmptyObject, after |-> EmptyObject]

Init ==
    /\ now = 0
    /\ ttl \in {ConversationCacheTTL(env) : env \in EnvValues}
    /\ ~TTLCheckThrows(ttl)
    /\ logged = 0
    /\ channelData = [c \in Conversations |-> NoEntry]
    /\ fcCalls = <<>>
    /\ webQueue = <<>>
    /\ webInFlight = {}
    /\ webLog = <<>>
    /\ users = EmptyObject
    /\ lastUpdate = NoUpdate
    /\ loads = <<>>
    /\ options \in [botToken : BotTokens, appToken : AppTokens,
                     disableUserSync : BOOLEAN, alias : {Undefined, "!"}]
    /\ runState = "new"
    /\ eventHandler = FALSE
    /\ brainListener = FALSE
    /\ brainIsLoaded = FALSE
    /\ self = EmptyObject
    /\ events = <<>>
    /\ received = <<>>
    /\ sends = <<>>
    /\ topics = <<>>

\* The adapter as configured to run: valid tokens.
InitValid ==
    /\ Init
    /\ options.botToken = "xoxb-"
    /\ options.appToken = "xapp-"

CacheNext ==
    \/ Tick
    \/ WebDispatch
    \/ \E c \in Conversations : FetchConversation(c)
    \/ \E r \in webInFlight, m \in CacheAnswers : FetchConversationResolved(r, m)
    \/ \E r \in webInFlight : FetchConversationRejected(r)

InitCache ==
    InitValid /\ ttl \in {Num(n) : n \in 0..MaxTTL} /\ options.disableUserSync /\ options.alias = Undefined

SpecCache == InitCache /\ [][CacheNext]_vars

\* run(), the loads of users that it starts, and errors of the socket.
LoadNext ==
    \/ Run
    \/ SocketError
    \/ BrainLoaded
    \/ WebDispatch
    \/ \E r \in webInFlight, m \in PageMembers, c \in Cursors : PageLoaded(r, m, c)
    \/ \E r \in webInFlight : PageFailed(r)

InitLoad == InitValid /\ ttl = Num(0) /\ options.alias = Undefined

SpecLoad == InitLoad /\ [][LoadNext]_vars

SendNext ==
    \/ WebDispatch
    \/ \E api \in {"send", "reply"}, e \in SendEnvelopes, m \in MessageLists : Send(api, e, m)
    \/ \E r \in webInFlight, ok \in BOOLEAN : PostMessageSettled(r, ok)
    \/ \E k \in DOMAIN sends : SendCallback(k)

InitSend == InitValid /\ ttl = Num(0) /\ options.disableUserSync /\ options.alias = Undefined

SpecSend == InitSend /\ [][SendNext]_vars

TopicNext ==
    \/ WebDispatch
    \/ \E c \in Conversations : SetTopic(c)
    \/ \E r \in webInFlight, m \in Metadata \cup {NullChannel} : TopicInfoResolved(r, m)
    \/ \E r \in webInFlight : TopicInfoRejected(r)
    \/ \E r \in webInFlight, ok \in BOOLEAN : TopicSetSettled(r, ok)

InitTopic == InitValid /\ ttl = Num(0) /\ options.disableUserSync /\ options.alias = Undefined

SpecTopic == InitTopic /\ [][TopicNext]_vars

\* The sightings of users, a call of fetchUser before any other request,
\* and events once this.self is known.
UserNext ==
    \/ \E p \in UserPayloads : UserSighting(p)
    \/ \E p \in UserPayloads : UserSighting(UserChange(p))
    \/ \E id \in UserIds :
            webLog = <<>> /\ FetchUser(id)
    \/ \E r \in webInFlight, u \in InfoPayloads : FetchUserResolved(r, u)
    \/ \E r \in webInFlight : FetchUserRejected(r)
    \/ Run
    \/ Authenticated
    \/ WebDispatch
    \/ \E r \in webInFlight : AuthTestResolved(r)
    \/ \E ev \in {Event("message", "U1", FALSE), Event("reaction_added", "U1", FALSE)} :
            self # EmptyObject /\ Deliver(ev)
    \/ \E r \in webInFlight, u \in InfoPayloads : UserInfoResolved(r, u)
    \/ \E i \in DOMAIN events : MessageMade(i)
    \/ \E i \in DOMAIN events, ok \in BOOLEAN : ReceiveSettled(i, ok)

InitUsers == InitValid /\ ttl = Num(0) /\ options.disableUserSync /\ options.alias = Undefined

SpecUsers == InitUsers /\ [][UserNext]_vars

\* The outbound calls and an inbound event, overlapping, on one WebClient:
\* calls are made while fewer than MaxRequests requests have been.
OutboundNext ==
    \/ Run
    \/ WebDispatch
    \/ Len(webLog) < MaxRequests /\ Deliver(Event("message", "U1", FALSE))
    \/ \E r \in webInFlight, u \in InfoPayloads : UserInfoResolved(r, u)
    \/ \E api \in {"send", "reply"} :
            /\ Len(webLog) < MaxRequests
            /\ Send(api, [room |-> "C1", id |-> Undefined, thread_ts |-> Undefined,
                          user |-> <<"U", "1">>], <<StringMessage(<<"h", "i">>), PlainObject>>)
    \/ \E r \in webInFlight, ok \in BOOLEAN : PostMessageSettled(r, ok)
    \/ \E k \in DOMAIN sends : SendCallback(k)
    \/ \E i \in DOMAIN events : EventWrapperCatch(i)
    \/ Len(webLog) < MaxRequests /\ SetTopic("C1")
    \/ \E r \in webInFlight : TopicInfoResolved(r, [name |-> "general", is_im |-> FALSE,
                                                      is_mpim |-> FALSE])
    \/ \E r \in webInFlight : TopicSetSettled(r, TRUE)
    \/ Len(webLog) < MaxRequests /\ FetchConversation("C1")
    \/ \E r \in webInFlight : FetchConversationResolved(r, [name |-> "general",
                                                          is_im |-> FALSE, is_mpim |-> FALSE])

InitOutbound == InitValid /\ ttl = Num(0) /\ options.disableUserSync /\ options.alias = Undefined

SpecOutbound == InitOutbound /\ [][OutboundNext]_vars

EventNext ==
    \/ Run
    \/ Connected
    \/ Authenticated
    \/ WebDispatch
    \/ \E r \in webInFlight : AuthTestResolved(r)
    \/ \E r \in webInFlight : AuthTestRejected(r)
    \/ \E ev \in InboundEvents : Deliver(ev)
    \/ \E u \in UserPayloads, a \in BOOLEAN : DeliverUserChange(u, a)
    \/ \E i \in DOMAIN events : AckResolved(i)
    \/ \E i \in DOMAIN events : AckRejected(i)
    \/ \E r \in webInFlight, u \in InfoPayloads : UserInfoResolved(r, u)
    \/ \E r \in webInFlight : UserInfoRejected(r)
    \/ \E i \in DOMAIN events : MessageMade(i)
    \/ \E i \in DOMAIN events : MessageNotMade(i)
    \/ \E i \in DOMAIN events, ok \in BOOLEAN : ReceiveSettled(i, ok)
    \/ \E i \in DOMAIN events : EventWrapperCatch(i)

InitEvents ==
    InitValid /\ ttl = Num(0) /\ options.disableUserSync /\ options.alias = Undefined

SpecEvents == InitEvents /\ [][EventNext]_vars

\* run() with any tokens, and what follows it: the socket connects and
\* authenticates, the brain loads, users are loaded and an event is handled.
RunNext ==
    \/ RunRefused
    \/ Run
    \/ Connected
    \/ BrainLoaded
    \/ Authenticated
    \/ WebDispatch
    \/ \E r \in webInFlight : AuthTestResolved(r)
    \/ \E r \in webInFlight, m \in PageMembers : PageLoaded(r, m, Undefined)
    \/ \E ev \in {Event("message", "U1", TRUE), Event("member_joined_channel", "U1", FALSE)} :
            Deliver(ev)
    \/ \E i \in DOMAIN events : AckResolved(i)
    \/ \E r \in webInFlight, u \in InfoPayloads : UserInfoResolved(r, u)
    \/ \E i \in DOMAIN events : MessageMade(i)
    \/ \E i \in DOMAIN events : ReceiveSettled(i, TRUE)
    \/ \E i \in DOMAIN events : EventWrapperCatch(i)

InitRun == Init /\ ttl = Num(0) /\ options.alias = Undefined

SpecRun == InitRun /\ [][RunNext]_vars

\* The events whose normalization depends on their members: reactions to a
\* message or to a file, with and without an item_user; a user joining or
\* leaving, with and without a timestamp on the envelope; texts in a channel
\* and in a direct message, with and without mentions of the bot.
MessageItem == [type |-> "message", channel |-> "C2", ts |-> "9"]
FileItem == [type |-> "file", file |-> "F1"]
ItemUsers == {EmptyObject, [id |-> "U2", name |-> "bob"], [real_name |-> "Bob"]}
ReactionEvents ==
    {[Event(t, "U1", FALSE) EXCEPT !.channel = c, !.item = item, !.item_user = iu] :
        t \in {"reaction_added", "reaction_removed"}, c \in {Undefined, "C1"},
        item \in {MessageItem, FileItem}, iu \in ItemUsers}
MembershipEvents ==
    {[Event(t, "U1", FALSE) EXCEPT !.envelope_ts = e] :
        t \in {"member_joined_channel", "member_left_channel"}, e \in {Undefined, "20"}}
Texts ==
    {<<"hello">>, <<>>, <<Mention(BotId), " ", "hi">>, <<BotId, " ", "rocks">>,
     <<"hi", " ", Mention(BotId), " ", Mention(BotId)>>}
TextEvents ==
    {[Event("message", "U1", FALSE) EXCEPT !.channel = c[1], !.channel_type = c[2],
                                           !.text = text] :
        c \in {<<"C1", "channel">>, <<"D1", "im">>}, text \in Texts}
NormalizeEvents == ReactionEvents \cup MembershipEvents \cup TextEvents

\* The adapter, run and authenticated, normalizes events of a user that the
\* brain does not hold yet.
NormalizeNext ==
    \/ Run
    \/ Authenticated
    \/ WebDispatch
    \/ \E r \in webInFlight : AuthTestResolved(r)
    \/ \E ev \in NormalizeEvents : self # EmptyObject /\ Deliver(ev)
    \/ \E r \in webInFlight, u \in InfoPayloads : UserInfoResolved(r, u)
    \/ \E i \in DOMAIN events : MessageMade(i)
    \/ \E i \in DOMAIN events : ReceiveSettled(i, TRUE)

InitNormalize == InitValid /\ ttl = Num(0) /\ options.disableUserSync

SpecNormalize == InitNormalize /\ [][NormalizeNext]_vars

\* A stream of MaxStream events, each of which may fail at any of its steps:
\* the acknowledgement, the fetch of the user, the reading of this.self, the
\* item user, the making of the message, receive.
StreamEvents ==
    {Event("message", "U1", TRUE), Event("member_joined_channel", "U1", FALSE),
     [Event("reaction_added", "U1", FALSE) EXCEPT !.item_user = [real_name |-> "Bob"]]}

StreamNext ==
    \/ Run
    \/ Authenticated
    \/ WebDispatch
    \/ \E r \in webInFlight : AuthTestResolved(r)
    \/ \E ev \in StreamEvents : Len(events) < MaxStream /\ EventWrapper(ev)
    \/ \E i \in DOMAIN events : AckResolved(i)
    \/ \E i \in DOMAIN events : AckRejected(i)
    \/ \E r \in webInFlight, u \in InfoPayloads : UserInfoResolved(r, u)
    \/ \E r \in webInFlight : UserInfoRejected(r)
    \/ \E i \in DOMAIN events : MessageMade(i)
    \/ \E i \in DOMAIN events : MessageNotMade(i)
    \/ \E i \in DOMAIN events, ok \in BOOLEAN : ReceiveSettled(i, ok)
    \/ \E i \in DOMAIN events : EventWrapperCatch(i)

InitStream ==
    InitValid /\ ttl = Num(0) /\ options.disableUserSync /\ options.alias = Undefined

SpecStream == InitStream /\ [][StreamNext]_vars

\* Events of the bot itself, a message and a reaction, and a message of a
\* user, delivered
\* before or after auth.test has given this.self, to a brain that holds the
\* bot's user (seen by updateUserInBrain, or stored by an earlier event) or
\* does not.
SelfEvents ==
    {Event("message", BotId, TRUE), Event("reaction_added", BotId, FALSE),
     Event("message", "U1", FALSE)}

SelfNext ==
    \/ Run
    \/ Authenticated
    \/ WebDispatch
    \/ \E r \in webInFlight : AuthTestResolved(r)
    \/ \E p \in {q \in UserPayloads : q.id = BotId} : UserSighting(p)
    \/ \E ev \in SelfEvents : Len(events) < MaxStream /\ EventWrapper(ev)
    \/ \E i \in DOMAIN events : AckResolved(i)
    \/ \E r \in webInFlight, u \in InfoPayloads : UserInfoResolved(r, u)
    \/ \E i \in DOMAIN events : MessageMade(i)
    \/ \E i \in DOMAIN events : ReceiveSettled(i, TRUE)
    \/ \E i \in DOMAIN events : EventWrapperCatch(i)

InitSelf ==
    InitValid /\ ttl = Num(0) /\ options.disableUserSync /\ options.alias = Undefined

SpecSelf == InitSelf /\ [][SelfNext]_vars

\* Events of one user in two conversations, whose handlers overlap: a
\* handler waits for users.info, for makeSlackTextMessage or for receive while
\* the next event is delivered.  No action here replaces the brain's object
\* of the user, so the user of every message is the brain's users[id].
AliasEvents ==
    {[Event(t, "U1", FALSE) EXCEPT !.channel = c] :
        t \in {"message", "member_joined_channel"}, c \in {"C1", "D1"}}

AliasNext ==
    \/ Run
    \/ Authenticated
    \/ WebDispatch
    \/ \E r \in webInFlight : AuthTestResolved(r)
    \/ \E ev \in AliasEvents :
            self # EmptyObject /\ Len(events) < MaxStream /\ EventWrapper(ev)
    \/ \E r \in webInFlight, u \in InfoPayloads : UserInfoResolved(r, u)
    \/ \E i \in DOMAIN events : MessageMade(i)
    \/ \E i \in DOMAIN events : ReceiveSettled(i, TRUE)

InitAlias ==
    InitValid /\ ttl = Num(0) /\ options.disableUserSync /\ options.alias = Undefined

SpecAlias == InitAlias /\ [][AliasNext]_vars

\* Events delivered once the socket is connected, before or after auth.test
\* has given this.self, every request and every step of the
\* handler succeeding.
ReceiveEvents ==
    {Event("message", "U1", TRUE), Event("member_joined_channel", "U1", FALSE),
     Event("message", BotId, FALSE)}

ReceiveNext ==
    \/ Run
    \/ Connected
    \/ Authenticated
    \/ WebDispatch
    \/ \E r \in webInFlight : AuthTestResolved(r)
    \/ \E ev \in ReceiveEvents :
            runState = "connected" /\ Len(events) < MaxStream /\ EventWrapper(ev)
    \/ \E i \in DOMAIN events : AckResolved(i)
    \/ \E r \in webInFlight, u \in InfoPayloads : UserInfoResolved(r, u)
    \/ \E i \in DOMAIN events : MessageMade(i)
    \/ \E i \in DOMAIN events : ReceiveSettled(i, TRUE)
    \/ \E i \in DOMAIN events : EventWrapperCatch(i)

InitReceive ==
    InitValid /\ ttl = Num(0) /\ options.disableUserSync /\ options.alias = Undefined

\* Every step that can be taken is taken in the end: the socket and the
\* requests answer, the promises settle.
SpecReceive == InitReceive /\ [][ReceiveNext]_vars /\ WF_vars(ReceiveNext)

\* The adapter started with any value of the TTL variable of the environment
\* that lets the module load: it runs, looks conversations up and handles a
\* message.
StartupNext ==
    \/ Run
    \/ Connected
    \/ Authenticated
    \/ WebDispatch
    \/ \E r \in webInFlight : AuthTestResolved(r)
    \/ self # EmptyObject /\ Deliver(Event("message", "U1", FALSE))
    \/ \E r \in webInFlight, u \in InfoPayloads : UserInfoResolved(r, u)
    \/ \E i \in DOMAIN events : MessageMade(i)
    \/ \E i \in DOMAIN events : ReceiveSettled(i, TRUE)
    \/ runState = "connected" /\ FetchConversation("C1")
    \/ \E r \in webInFlight : FetchConversationResolved(r, [name |-> "general",
                                                          is_im |-> FALSE, is_mpim |-> FALSE])

InitStartup == InitValid /\ options.disableUserSync /\ options.alias = Undefined

SpecStartup == InitStartup /\ [][StartupNext]_vars

(***************************************************************************)
(* Claims.                                                                 *)
(***************************************************************************)
\* The conversations.info requests that fetchConversation call k issued.
InfoRequestsOf(k) ==
    {i \in DOMAIN webLog : /\ webLog[i].kind = "fc"
                           /\ webLog[i].idx = k
                           /\ webLog[i].method = "conversations.info"}

\* The call found a stored entry younger than the TTL.
WithinTTL(call) ==
    call.entry.present /\ Less(Num(call.calledAt - call.entry.updated), ttl)

\* C1: a fetchConversation call made while now - updated < TTL for a stored
\* entry returns the stored metadata and issues no conversations.info request;
\* a call made with no entry, or with an entry for which now - updated >= TTL,
\* issues exactly one request and, when it succeeds with metadata, stores the
\* metadata stamped with the time of storing.
C1_CacheContract ==
    \A k \in DOMAIN fcCalls :
        LET call == fcCalls[k]
        IN /\ WithinTTL(call) =>
                /\ Cardinality(InfoRequestsOf(k)) = 0
                /\ call.state = "done"
                /\ call.result = call.entry.channel
           /\ ~WithinTTL(call) =>
                /\ Cardinality(InfoRequestsOf(k)) = 1
                /\ (call.state = "done" /\ call.result # NullChannel) =>
                        call.stored = [present |-> TRUE, channel |-> call.result,
                                       updated |-> call.doneAt]

\* A conversation fetched and stored, then served from the cache within the
\* TTL, then fetched again after the TTL ran out.
C1_Witness ==
    \E i, j, k \in DOMAIN fcCalls :
        /\ i < j /\ j < k
        /\ fcCalls[i].conv = fcCalls[j].conv /\ fcCalls[j].conv = fcCalls[k].conv
        /\ ~fcCalls[i].entry.present /\ fcCalls[i].state = "done"
        /\ WithinTTL(fcCalls[j]) /\ fcCalls[j].result = fcCalls[i].result
        /\ fcCalls[k].entry.present /\ ~WithinTTL(fcCalls[k])
        /\ fcCalls[k].state = "done" /\ fcCalls[k].result # NullChannel

\* The payload gives the record's key: a member of its own, or the email of
\* its profile for email_address.
Supplies(payload, key) ==
    \/ key \in DOMAIN payload
    \/ key = "email_address" /\ ProfileEmail(payload) # Undefined

\* The keys of a record that updateUserInBrain always builds from the payload.
BuiltKeys == {"id", "name", "real_name", "slack"}

\* C2 as stated: after the second sighting of a user, the platform-field map
\* is exactly the payload, and every other key that the record held and the
\* payload does not supply is kept with its value.
C2_AsStated ==
    lastUpdate.had =>
        /\ lastUpdate.after["slack"] = lastUpdate.payload
        /\ \A key \in DOMAIN lastUpdate.before \ {"slack"} :
               ~Supplies(lastUpdate.payload, key) =>
                   /\ key \in DOMAIN lastUpdate.after
                   /\ lastUpdate.after[key] = lastUpdate.before[key]

\* C2, amended: after the second sighting of a user, the platform-field map
\* is exactly the payload; name and real_name are the payload's (undefined
\* when it has none, the name then falling back to the id); and every key
\* other than id, name, real_name and the platform-field map that the record
\* held and the payload does not supply is kept with its value.
C2_MergeRule ==
    lastUpdate.had =>
        /\ lastUpdate.after["slack"] = lastUpdate.payload
        /\ lastUpdate.after["real_name"] = Get(lastUpdate.payload, "real_name")
        /\ lastUpdate.after["name"] =
              IF "name" \in DOMAIN lastUpdate.payload THEN lastUpdate.payload["name"]
              ELSE lastUpdate.user
        /\ \A key \in DOMAIN lastUpdate.before \ BuiltKeys :
               ~Supplies(lastUpdate.payload, key) =>
                   /\ key \in DOMAIN lastUpdate.after
                   /\ lastUpdate.after[key] = lastUpdate.before[key]

\* A user seen a second time, with a room set by an event in between, an
\* email_address that the second payload does not give, and a platform field
\* of the first payload that the second does not have.
C2_Witness ==
    /\ lastUpdate.had
    /\ "room" \in DOMAIN lastUpdate.before
    /\ "email_address" \in DOMAIN lastUpdate.before
    /\ ProfileEmail(lastUpdate.payload) = Undefined
    /\ "slack" \in DOMAIN lastUpdate.before
    /\ ~(DOMAIN lastUpdate.before["slack"] \subseteq DOMAIN lastUpdate.payload)
    /\ lastUpdate.after["room"] = lastUpdate.before["room"]

\* C3: no message handed to robot.receive comes from an event whose acting
\* user is the bot itself.
C3_SelfNeverReceived ==
    \A m \in DOMAIN received : events[received[m].task].ev.user # BotId

\* Two events of the bot itself, both dropped as its own: one whose user the
\* brain did not hold and users.info gave, and one whose user the brain held,
\* with the record that updateUserInBrain made.
C3_Witness ==
    \E i, j \in DOMAIN events :
        /\ events[i].ev.user = BotId /\ events[i].pc = "self"
        /\ \E r \in DOMAIN webLog : webLog[r].kind = "event" /\ webLog[r].idx = i
        /\ events[j].ev.user = BotId /\ events[j].pc = "self"
        /\ \A r \in DOMAIN webLog : ~(webLog[r].kind = "event" /\ webLog[r].idx = j)
        /\ "slack" \in DOMAIN users[BotId]

\* The handling of the task's event by the adapter is over.
Handled(task) ==
    task.pc \in {"updated", "raised", "ignored", "noactor", "self", "failed", "dropped",
                "done"}

\* C4: every inbound event that carries an acknowledgement function is
\* acknowledged exactly once, whatever becomes of it.
C4_AckedExactlyOnce ==
    \A i \in DOMAIN events :
        (events[i].ev.hasAck /\ Handled(events[i])) => events[i].acks = 1

\* C5: at most one request of the adapter is on the wire at any moment.
C5_OneInFlight == Cardinality(webInFlight) <= 1

\* One request on the wire while the second message of the same send, a
\* request of setTopic and a request of an event's handler wait.
C5_Witness ==
    \E r \in webInFlight :
        /\ r.kind = "send"
        /\ \E i \in DOMAIN webQueue : webQueue[i].kind = "send" /\ webQueue[i].idx = r.idx
        /\ \E i \in DOMAIN webQueue : webQueue[i].kind = "topic"
        /\ \E i \in DOMAIN webQueue : webQueue[i].kind = "event"

\* The chat.postMessage requests of send call k for its message i.
PostsOf(k, i) ==
    {r \in DOMAIN webLog : /\ webLog[r].kind = "send" /\ webLog[r].idx = k
                           /\ webLog[r].sub = i}
HasMessage(call) == \E i \in DOMAIN call.messages : NotEmptyString(call.messages[i])

\* C6: a send or reply with an envelope that has neither room nor id issues
\* no chat.postMessage, logs an error and raises nothing.
C6_NoRoomNoCall ==
    \A k \in DOMAIN sends :
        (/\ sends[k].envelope.room = Undefined
         /\ sends[k].envelope.id = Undefined
         /\ HasMessage(sends[k])) =>
            /\ \A i \in DOMAIN sends[k].messages : PostsOf(k, i) = {}
            /\ sends[k].refusalsLogged >= 1
            /\ sends[k].state # "rejected"

\* C7: for a send with a room, every message that is not the empty string is
\* posted exactly once, whatever the outcome; a failure is logged and not
\* raised; and the callback is called once, without an error, when all the
\* posts have settled.
C7_OneAttempt ==
    \A k \in DOMAIN sends :
        (sends[k].api = "send" /\ RoomOf(sends[k].envelope) # Undefined) =>
            /\ \A i \in DOMAIN sends[k].messages :
                   Cardinality(PostsOf(k, i)) =
                       IF NotEmptyString(sends[k].messages[i]) THEN 1 ELSE 0
            /\ sends[k].failuresLogged = sends[k].failures
            /\ sends[k].state # "rejected"
            /\ ~sends[k].cbError
            /\ sends[k].cbCount = IF sends[k].state = "resolved" THEN 1 ELSE 0
            /\ sends[k].pending # {} => sends[k].state = "waiting"

\* A send of an empty string and two messages, one of whose posts failed,
\* with its callback called.
C7_Witness ==
    \E k \in DOMAIN sends :
        /\ sends[k].api = "send"
        /\ Len(sends[k].messages) = 3
        /\ PostsOf(k, 1) = {}
        /\ Cardinality(PostsOf(k, 2)) = 1 /\ Cardinality(PostsOf(k, 3)) = 1
        /\ sends[k].failures = 1
        /\ sends[k].cbCount = 1

\* C8: the options of a structured payload's chat.postMessage have the
\* resolved room as channel, the payload's other members, and the envelope's
\* thread_ts when the payload has none.
C8_ChannelIsRoom ==
    \A r \in DOMAIN webLog :
        (/\ webLog[r].kind = "send"
         /\ sends[webLog[r].idx].api = "send"
         /\ ~sends[webLog[r].idx].messages[webLog[r].sub].isString) =>
            LET call == sends[webLog[r].idx]
                payload == call.messages[webLog[r].sub].obj
            IN /\ webLog[r].opts["channel"] = RoomOf(call.envelope)
               /\ \A key \in DOMAIN payload \ {"channel"} :
                      webLog[r].opts[key] = payload[key]
               /\ "thread_ts" \notin DOMAIN payload =>
                      webLog[r].opts["thread_ts"] = call.envelope.thread_ts

\* C9: the promise of setTopic never rejects.
C9_TopicNeverRejects ==
    \A k \in DOMAIN topics : topics[k].state # "rejected"

\* The users.list requests of load l.
PagesAsked(l) == {r \in DOMAIN webLog : webLog[r].kind = "load" /\ webLog[r].idx = l}

RECURSIVE Flatten(_)
Flatten(pages) == IF pages = <<>> THEN <<>> ELSE Head(pages) \o Flatten(Tail(pages))

\* C10: the callback of a load is called once: after the page without a next
\* cursor, with the members of all the pages in their order; or at the first
\* failed page, with the error, no page being asked for after it and no user
\* of the load being written.
C10_LoadOnce ==
    \A l \in DOMAIN loads :
        LET load == loads[l]
        IN /\ load.cbCount <= 1
           /\ load.cbCount = 0 => Cardinality(PagesAsked(l)) = load.answered + 1
           /\ load.cbCount = 1 => Cardinality(PagesAsked(l)) = load.answered
           /\ (load.cbCount = 1 /\ ~load.cbError) =>
                 /\ load.cbMembers = Flatten(load.pages)
                 /\ Len(load.pages) = load.answered
                 /\ Falsy(load.cursors[Len(load.cursors)])
                 /\ \A p \in 1..(Len(load.cursors) - 1) : ~Falsy(load.cursors[p])
           /\ load.cbError =>
                 /\ load.cbCount = 1
                 /\ load.written = <<>>
                 /\ load.cbMembers = <<>>

\* One load that gathered two pages of members, and one that failed after a
\* page of members.
C10_Witness ==
    \E a, b \in DOMAIN loads :
        /\ loads[a].cbCount = 1 /\ ~loads[a].cbError
        /\ Len(loads[a].pages) = 2 /\ Len(loads[a].cbMembers) = 3
        /\ loads[b].cbError /\ loads[b].members # <<>>

\* The TTL is not one that the configuration may give: not a number, or negative.
InvalidTTL == ttl.nan \/ ttl.n < 0

\* C11: with a TTL override that is not a non-negative integer the adapter
\* never runs: run does not start, no event is handled.
C11_InvalidTTLNeverRuns ==
    InvalidTTL => (runState = "new" /\ events = <<>> /\ fcCalls = <<>>)

\* C12: a fetchConversation whose fetch fails rejects and leaves the store as
\* it was before the call: an entry that the store held is still there.
C12_FailedFetchKeepsStore ==
    \A k \in DOMAIN fcCalls :
        (fcCalls[k].state = "failed" /\ fcCalls[k].entry.present) =>
            fcCalls[k].stored = fcCalls[k].entry

\* The tokens that run() is to accept: both given, the bot token with a bot
\* prefix and the app token with the app prefix.
ValidTokens ==
    /\ options.botToken \in {"xoxb-", "xoxp-"}
    /\ options.appToken = "xapp-"

\* C13: with a token missing or malformed run logs an error and nothing else
\* happens: the socket is not connected, no event handler and no listener of
\* the brain is registered, no load of users starts, no request is made and
\* no event is handled or received.
C13_BadTokensNothingRuns ==
    ~ValidTokens =>
        /\ runState \in {"new", "refused"}
        /\ runState = "refused" => logged = 1
        /\ ~eventHandler /\ ~brainListener /\ ~brainIsLoaded
        /\ loads = <<>> /\ webLog = <<>>
        /\ events = <<>> /\ received = <<>>

\* run() has refused an app token that is given but has a bot token's prefix.
C13_Witness ==
    /\ runState = "refused"
    /\ options.botToken = "xoxb-"
    /\ options.appToken = "xoxb-"
    /\ logged = 1

\* C14: the room of the acting user on a Reaction message handed to receive
\* is the conversation of the item when the item is a message, and the empty
\* string for any other item, whatever the channel of the event is.
C14_ReactionRoom ==
    \A m \in DOMAIN received :
        received[m].kind = "Reaction" =>
            LET ev == events[received[m].task].ev
            IN /\ ev.item["type"] = "message" => received[m].room = ev.item["channel"]
               /\ ev.item["type"] # "message" => received[m].room = ""

\* A reaction to a message of conversation C2, by an event whose own channel
\* is C1, handed to receive.
C14_Witness ==
    \E m \in DOMAIN received :
        /\ received[m].kind = "Reaction"
        /\ events[received[m].task].ev.channel = "C1"
        /\ events[received[m].task].ev.item = MessageItem
        /\ received[m].room = "C2"

\* C15: a Leave message handed to receive bears the timestamp of the envelope
\* and an Enter message the timestamp of the event.
C15_LeaveEnvelopeTs ==
    \A m \in DOMAIN received :
        LET ev == events[received[m].task].ev
        IN /\ received[m].kind = "Leave" => received[m].ts = ev.envelope_ts
           /\ received[m].kind = "Enter" => received[m].ts = ev.ts

\* A Leave message of an event whose envelope and event bear different
\* timestamps.
C15_Witness ==
    \E m \in DOMAIN received :
        /\ received[m].kind = "Leave"
        /\ events[received[m].task].ev.envelope_ts = "20"
        /\ events[received[m].task].ev.ts = "10"
        /\ received[m].ts = "20"

\* The text of the event is not empty and does not hold the bot's user id,
\* alone or in a mention.
PlainText(ev) == ev.text # <<>> /\ ~Includes(ev.text, {BotId, Mention(BotId)})

\* What the mention of the bot is replaced by: the alias, or @ and the name.
BotCalled == IF options.alias # Undefined THEN options.alias ELSE "@hubot"

\* C16 as stated: the text of a direct message without the bot's id reaches
\* classification as the bot's mention, a space and the original text.
C16_AsStated ==
    \A m \in DOMAIN received :
        LET ev == events[received[m].task].ev
        IN (received[m].kind = "Text" /\ ev.channel_type = "im" /\ PlainText(ev)) =>
               received[m].text = <<Mention(BotId), " ">> \o ev.text

\* C16, amended: the text of a direct message without the bot's id is given
\* the bot's mention and a space in front, and reaches classification with
\* that mention replaced by the alias or by @ and the bot's name; a text that
\* holds the bot's id already, and a text outside a direct message, is given
\* nothing in front.
C16_PrefixThenReplace ==
    \A m \in DOMAIN received :
        LET ev == events[received[m].task].ev
        IN received[m].kind = "Text" =>
              /\ (ev.channel_type = "im" /\ PlainText(ev)) =>
                     received[m].text = <<BotCalled, " ">> \o ev.text
              /\ ~(ev.channel_type = "im" /\ PlainText(ev)) =>
                     /\ Len(received[m].text) = Len(ev.text)
                     /\ ~Includes(ev.text, {Mention(BotId)}) => received[m].text = ev.text

\* The text hello of a direct message, received with the alias in front.
C16_Witness ==
    \E m \in DOMAIN received :
        /\ received[m].kind = "Text"
        /\ events[received[m].task].ev.channel_type = "im"
        /\ events[received[m].task].ev.text = <<"hello">>
        /\ options.alias = "!"
        /\ received[m].text = <<"!", " ", "hello">>

\* C17: the text handed to classification holds no mention of the bot.
C17_NoMentionLeft ==
    \A m \in DOMAIN received :
        received[m].kind = "Text" => ~Includes(received[m].text, {Mention(BotId)})

\* C18: a reaction by a user that is resolved and is not the bot is handed to
\* receive, whatever happens while its item user is resolved.
C18_ReactionStillReceived ==
    \A i \in DOMAIN events :
        (/\ EventKind(events[i].ev) = "Reaction"
         /\ events[i].ev.user # BotId
         /\ events[i].ev.user \in DOMAIN users
         /\ events[i].pc \in {"receive", "done", "dropped"}) =>
            \E m \in DOMAIN received :
                received[m].task = i /\ received[m].kind = "Reaction"

\* The handling of the task's event failed: the failure was caught.
Failed(task) == task.pc \in {"failed", "dropped"}

\* C19: a failure in the handling of an event is logged, once, and goes no
\* further than that event: no exception leaves eventWrapper, and the events
\* delivered after it are given to the handler.
C19_FailureConfined ==
    /\ \A i \in DOMAIN events : events[i].pc # "escaped"
    /\ logged = Cardinality({i \in DOMAIN events : Failed(events[i])})
    /\ \A i, j \in DOMAIN events :
           (i < j /\ Failed(events[i])) => events[j].pc # "ignored"

\* An event whose handling failed, and a later event that was handed to
\* receive and handled to the end.
C19_Witness ==
    \E i, j \in DOMAIN events :
        /\ i < j
        /\ Failed(events[i])
        /\ events[j].pc = "done"
        /\ \E m \in DOMAIN received : received[m].task = j

\* C20: every record of the brain has the shape that updateUserInBrain gives:
\* id, name, real_name and the map of the platform's fields, which holds the
\* payload of the user.
C20_NormalizedShape ==
    \A id \in DOMAIN users :
        /\ {"id", "name", "real_name", "slack"} \subseteq DOMAIN users[id]
        /\ users[id]["slack"]["id"] = id

\* C21: a message handed to receive carries the room of its own event, when
\* it is handed over and for as long as receive has not returned: the room is
\* read off the message's user, the object that the brain holds.
C21_RoomOfOwnEvent ==
    \A m \in DOMAIN received :
        LET task == events[received[m].task]
        IN received[m].kind # "Leave" =>
              /\ received[m].room = FromRoom(task.ev)
              /\ task.pc = "receive" => users[task.ev.user]["room"] = FromRoom(task.ev)

\* The messages handed to receive for task i.
ReceivedOf(i) == {m \in DOMAIN received : received[m].task = i}

\* C22: an event of a user other than the bot, delivered once run has
\* registered the handler, is handed to receive exactly once by the time its
\* handling is over, nothing having failed but the handler itself.
C22_ReceivedOnce ==
    \A i \in DOMAIN events :
        (events[i].ev.user \notin {BotId, Undefined} /\ Handled(events[i])) =>
            Cardinality(ReceivedOf(i)) = 1

====
